---- MODULE Spec2Model ----
(***************************************************************************)
(* Lease pool of the token service (src/src/token/token.service.ts).       *)
(*                                                                         *)
(* The store (Redis) holds one key token:<id> per token, with a value and  *)
(* a time to live, and the two sets available_tokens and assigned_tokens.  *)
(* Every awaited store call of a service method is one step of the model:  *)
(* between two awaits of one call the calls of other requests and of the   *)
(* expiry listener may run.  A key may expire at any moment after it was   *)
(* set (time is abstracted: the key keeps the TTL it was last given), and  *)
(* the expiry then queues a notification that the listener handles later.  *)
(* Notifications reach the listener in the order they were published; the  *)
(* callbacks of several notifications may be in flight at once.  Store     *)
(* calls succeed, except in SpecErr, where a store call of                 *)
(* createMultipleTokens or of handleExpiredToken may throw and a published *)
(* notification may fail to reach the listener.                            *)
(***************************************************************************)
EXTENDS Integers, Sequences, FiniteSets, TLC

\* ------------------------------------------------------------------ bounds
MaxTokens == 2      \* token ids a caller may name; ids generated in SpecAssign, SpecPool
MaxPool == 1        \* token ids ever generated in the other specifications
NumProcs == 3       \* request handlers and listener callbacks running at once
MaxNotif == 2       \* expiry notifications not yet handled

\* --------------------------------------------------------- configuration
TOKEN_EXPIRY == 60
KEEP_ALIVE_EXPIRY == 30

Tokens == 1..MaxTokens
Procs == 1..NumProcs
\* the count of a request body: <<>> when the body has none, <<n>> otherwise
CountInputs == {<<>>} \cup {<<n>> : n \in -1..MaxTokens}

VARIABLES
    keys,               \* token:<id> -> [val, ttl], NoKey when the key does not exist
    available_tokens,   \* the set available_tokens
    assigned_tokens,    \* the set assigned_tokens
    notif,              \* expired-key notifications published and not yet handled
    nextId,             \* number of token ids generated so far
    pc,                 \* per call: the store call it is about to make
    arg,                \* per call: the token it works on
    cnt,                \* per create call: loop iterations left
    \* history (read by no operation; the properties are stated over it)
    lease,              \* token -> assignToken returned it and the lease is running
    everAssigned,       \* token -> some assignToken returned it
    reaped,             \* token -> handleExpiredToken completed a run for it
    deleted,            \* token -> deleteToken returned true for it
    htag,               \* per listener callback: the tags of its notification
    last                \* the request that returned last, and its result

store == <<keys, available_tokens, assigned_tokens>>
local == <<pc, arg, cnt>>
hist == <<lease, everAssigned, reaped, deleted>>
vars == <<keys, available_tokens, assigned_tokens, notif, nextId, pc, arg, cnt,
          lease, everAssigned, reaped, deleted, htag, last>>

\* ------------------------------------------------------ store primitives
NoKey == [val |-> "none", ttl |-> -2]

SetEx(k, t, v, ttl) == [k EXCEPT ![t] = [val |-> v, ttl |-> ttl]]

Exists(k, t) == k[t] # NoKey

Del(k, t) == [k EXCEPT ![t] = NoKey]

ExpireCmd(k, t, ttl) == IF Exists(k, t) THEN [k EXCEPT ![t].ttl = ttl] ELSE k

Sadd(S, t) == S \cup {t}

Srem(S, t) == S \ {t}

Sismember(S, t) == t \in S

\* spop: any one current member is removed and returned
SpopChoices(S) == S

\* faulty variant: the pop returns a member and leaves it in the set
SpopRest_Keeps(S, t) == S

SpopRest(S, t) == S \ {t}

\* ------------------------------------------------------------- histories
NoTag == [stale |-> FALSE, lease |-> FALSE]

Ev(op, t, ok, after) == [op |-> op, tok |-> t, ok |-> ok, after |-> after]

NoEv == Ev("other", 0, FALSE, "other")

\* The order of completed calls and the tags of the notifications are the
\* histories of the serial-run properties: they are recorded in serial runs.
\* last holds the request that has just returned, with its result, and NoEv
\* after a key expiry or a run of the listener's callback.
Rec(serial, e) == IF serial THEN e ELSE NoEv

\* the op that completed just before, when it succeeded on the same token
After(t) ==
    IF last.tok = t /\ last.ok /\ last.op \in {"assign", "free"}
    THEN last.op ELSE "other"

\* a deleteToken on the same token returned just before
AfterDelete(t) ==
    IF last.tok = t /\ last.op = "delete" THEN "delete" ELSE "other"

\* tokens a successful assign, free or delete acted on since their expiry
MarkStale(serial, q, t) ==
    IF ~serial THEN q ELSE
    [i \in DOMAIN q |-> IF q[i].tok = t THEN [q[i] EXCEPT !.stale = TRUE] ELSE q[i]]

\* a later call on the token ends the case "the lease was abandoned"
MarkTouched(serial, q, t) ==
    IF ~serial THEN q ELSE
    [i \in DOMAIN q |-> IF q[i].tok = t THEN [q[i] EXCEPT !.lease = FALSE] ELSE q[i]]

HandlerPcs == {"h_sadd", "h_set", "h_srem_as", "h_srem_av"}

\* the same marks on the notifications whose callbacks are running
StaleTags(serial, h, t) ==
    IF ~serial THEN h ELSE
    [q \in Procs |-> IF arg[q] = t /\ pc[q] \in HandlerPcs
                     THEN [h[q] EXCEPT !.stale = TRUE] ELSE h[q]]

TouchTags(serial, h, t) ==
    IF ~serial THEN h ELSE
    [q \in Procs |-> IF arg[q] = t /\ pc[q] \in HandlerPcs
                     THEN [h[q] EXCEPT !.lease = FALSE] ELSE h[q]]

Idle(p) == pc[p] = "idle"

\* the slots are anonymous: a new call runs in the lowest idle one
Free(p) == Idle(p) /\ \A q \in Procs : q < p => ~Idle(q)

AtRest == \A p \in Procs : Idle(p)

\* serial runs: a call starts and steps only while no other call is in flight
Turn(serial, p) == serial => \A q \in Procs \ {p} : Idle(q)

Go(p, to) == pc' = [pc EXCEPT ![p] = to]

Done(p) == /\ pc' = [pc EXCEPT ![p] = "idle"]
           /\ arg' = [arg EXCEPT ![p] = 0]

Init ==
    /\ keys = [t \in Tokens |-> NoKey]
    /\ available_tokens = {}
    /\ assigned_tokens = {}
    /\ notif = <<>>
    /\ nextId = 0
    /\ pc = [p \in Procs |-> "idle"]
    /\ arg = [p \in Procs |-> 0]
    /\ cnt = [p \in Procs |-> 0]
    /\ lease = [t \in Tokens |-> FALSE]
    /\ everAssigned = [t \in Tokens |-> FALSE]
    /\ reaped = [t \in Tokens |-> FALSE]
    /\ deleted = [t \in Tokens |-> FALSE]
    /\ htag = [p \in Procs |-> NoTag]
    /\ last = NoEv

\* ------------------------------------------------- createMultipleTokens
RECURSIVE Reserved(_)
Reserved(S) ==
    IF S = {} THEN 0
    ELSE LET p == CHOOSE x \in S : TRUE IN cnt[p] + Reserved(S \ {p})

\* !count || count <= 0: a missing count is undefined, and !count holds of
\* undefined and of 0
InvalidCount(count) ==
    IF count = <<>> THEN TRUE ELSE count[1] = 0 \/ count[1] <= 0

\* the iterations the service's loop is to make
Iterations(count) == IF InvalidCount(count) THEN 0 ELSE count[1]

\* faulty variant: the controller passes every count on to the service, whose
\* loop makes no iteration for a count that is not positive
CreateRequest_NoCheck(serial, cap, p, count) ==
    /\ Free(p) /\ Turn(serial, p)
    /\ nextId + Reserved(Procs) + Iterations(count) <= cap
    /\ IF InvalidCount(count)
       THEN /\ last' = Rec(serial, Ev("create", 0, TRUE, "other"))
            /\ UNCHANGED <<pc, cnt>>
       ELSE /\ Go(p, "c_set")
            /\ cnt' = [cnt EXCEPT ![p] = Iterations(count)]
            /\ UNCHANGED last
    /\ UNCHANGED <<store, notif, nextId, arg, hist, htag>>

\* POST /token/create: the controller rejects a missing or non-positive count
\* with BadRequestException and otherwise calls the service
CreateRequest(serial, cap, p, count) ==
    /\ Free(p) /\ Turn(serial, p)
    /\ nextId + Reserved(Procs) + Iterations(count) <= cap
    /\ IF InvalidCount(count)
       THEN /\ last' = Rec(serial, Ev("create", 0, FALSE, "other"))
            /\ UNCHANGED <<pc, cnt>>
       ELSE /\ Go(p, "c_set")
            /\ cnt' = [cnt EXCEPT ![p] = Iterations(count)]
            /\ UNCHANGED last
    /\ UNCHANGED <<store, notif, nextId, arg, hist, htag>>

\* loop body, first await: a fresh id, set token:<id> 'free' EX TOKEN_EXPIRY
CreateSet(serial, p) ==
    /\ pc[p] = "c_set" /\ Turn(serial, p)
    /\ nextId' = nextId + 1
    /\ keys' = SetEx(keys, nextId + 1, "free", TOKEN_EXPIRY)
    /\ arg' = [arg EXCEPT ![p] = nextId + 1]
    /\ cnt' = [cnt EXCEPT ![p] = cnt[p] - 1]
    /\ Go(p, "c_sadd")
    /\ UNCHANGED <<available_tokens, assigned_tokens, notif, hist, htag, last>>

\* faulty variant: the new id is not added to available_tokens
CreateSadd_Skips(serial, p) ==
    /\ pc[p] = "c_sadd" /\ Turn(serial, p)
    /\ IF cnt[p] > 0
       THEN /\ Go(p, "c_set")
            /\ arg' = [arg EXCEPT ![p] = 0]
            /\ UNCHANGED last
       ELSE /\ Done(p)
            /\ last' = Rec(serial, Ev("create", 0, TRUE, "other"))
    /\ UNCHANGED <<store, notif, nextId, cnt, hist, htag>>

\* loop body, second await: sadd available_tokens; the loop ends with i = count
CreateSadd(serial, p) ==
    /\ pc[p] = "c_sadd" /\ Turn(serial, p)
    /\ available_tokens' = Sadd(available_tokens, arg[p])
    /\ IF cnt[p] > 0
       THEN /\ Go(p, "c_set")
            /\ arg' = [arg EXCEPT ![p] = 0]
            /\ UNCHANGED last
       ELSE /\ Done(p)
            /\ last' = Rec(serial, Ev("create", 0, TRUE, "other"))
    /\ UNCHANGED <<keys, assigned_tokens, notif, nextId, cnt, hist, htag>>

\* the set or the sadd of the loop body throws: control passes to the catch
\* block; a key that set has written stays
CreateThrows(serial, p) ==
    /\ pc[p] \in {"c_set", "c_sadd"} /\ Turn(serial, p)
    /\ Go(p, "c_catch")
    /\ cnt' = [cnt EXCEPT ![p] = 0]
    /\ UNCHANGED <<store, notif, nextId, arg, hist, htag, last>>

\* catch: the error is logged and the service returns; the controller then
\* answers `${count} tokens created successfully`
CreateCatch(serial, p) ==
    /\ pc[p] = "c_catch" /\ Turn(serial, p)
    /\ Done(p)
    /\ last' = Rec(serial, Ev("create", 0, TRUE, "other"))
    /\ UNCHANGED <<store, notif, nextId, cnt, hist, htag>>

\* ---------------------------------------------------------- assignToken
\* spop available_tokens; an empty set returns false
AssignSpop(serial, p) ==
    /\ Free(p) /\ Turn(serial, p)
    /\ IF SpopChoices(available_tokens) = {}
       THEN /\ last' = Rec(serial, Ev("assign", 0, FALSE, "other"))
            /\ UNCHANGED <<available_tokens, pc, arg>>
       ELSE \E t \in SpopChoices(available_tokens) :
            /\ available_tokens' = SpopRest(available_tokens, t)
            /\ arg' = [arg EXCEPT ![p] = t]
            /\ Go(p, "a_set")
            /\ UNCHANGED last
    /\ UNCHANGED <<keys, assigned_tokens, notif, nextId, cnt, hist, htag>>

\* set token:<id> 'assigned' EX KEEP_ALIVE_EXPIRY
AssignSet(serial, p) ==
    /\ pc[p] = "a_set" /\ Turn(serial, p)
    /\ keys' = SetEx(keys, arg[p], "assigned", KEEP_ALIVE_EXPIRY)
    /\ Go(p, "a_sadd")
    /\ UNCHANGED <<available_tokens, assigned_tokens, notif, nextId, arg, cnt,
                   hist, htag, last>>

\* sadd assigned_tokens; return the token
AssignSadd(serial, p) ==
    /\ pc[p] = "a_sadd" /\ Turn(serial, p)
    /\ assigned_tokens' = Sadd(assigned_tokens, arg[p])
    /\ Done(p)
    /\ lease' = [lease EXCEPT ![arg[p]] = TRUE]
    /\ everAssigned' = [everAssigned EXCEPT ![arg[p]] = TRUE]
    /\ notif' = MarkTouched(serial, MarkStale(serial, notif, arg[p]), arg[p])
    /\ htag' = TouchTags(serial, StaleTags(serial, htag, arg[p]), arg[p])
    /\ last' = Rec(serial, Ev("assign", arg[p], TRUE, "other"))
    /\ UNCHANGED <<keys, available_tokens, nextId, cnt, reaped, deleted>>

\* ------------------------------------------------------------ freeToken
\* faulty variant: the membership test is left out
FreeSismember_NoTest(serial, p, t) ==
    /\ Free(p) /\ Turn(serial, p)
    /\ Go(p, "f_set")
    /\ arg' = [arg EXCEPT ![p] = t]
    /\ notif' = MarkTouched(serial, notif, t)
    /\ htag' = TouchTags(serial, htag, t)
    /\ UNCHANGED <<store, nextId, cnt, hist, last>>

\* sismember assigned_tokens; not a member returns false
FreeSismember(serial, p, t) ==
    /\ Free(p) /\ Turn(serial, p)
    /\ IF ~Sismember(assigned_tokens, t)
       THEN /\ last' = Rec(serial, Ev("free", t, FALSE, After(t)))
            /\ UNCHANGED <<pc, arg>>
       ELSE /\ Go(p, "f_set")
            /\ arg' = [arg EXCEPT ![p] = t]
            /\ UNCHANGED last
    /\ notif' = MarkTouched(serial, notif, t)
    /\ htag' = TouchTags(serial, htag, t)
    /\ UNCHANGED <<store, nextId, cnt, hist>>

\* set token:<id> 'free' EX TOKEN_EXPIRY
FreeSet(serial, p) ==
    /\ pc[p] = "f_set" /\ Turn(serial, p)
    /\ keys' = SetEx(keys, arg[p], "free", TOKEN_EXPIRY)
    /\ Go(p, "f_sadd")
    /\ UNCHANGED <<available_tokens, assigned_tokens, notif, nextId, arg, cnt,
                   hist, htag, last>>

\* sadd available_tokens
FreeSadd(serial, p) ==
    /\ pc[p] = "f_sadd" /\ Turn(serial, p)
    /\ available_tokens' = Sadd(available_tokens, arg[p])
    /\ Go(p, "f_srem")
    /\ UNCHANGED <<keys, assigned_tokens, notif, nextId, arg, cnt, hist, htag, last>>

\* faulty variant: returns true without the srem
FreeSrem_Skips(serial, p) ==
    /\ pc[p] = "f_srem" /\ Turn(serial, p)
    /\ Done(p)
    /\ lease' = [lease EXCEPT ![arg[p]] = FALSE]
    /\ notif' = MarkStale(serial, notif, arg[p])
    /\ htag' = StaleTags(serial, htag, arg[p])
    /\ last' = Rec(serial, Ev("free", arg[p], TRUE, After(arg[p])))
    /\ UNCHANGED <<store, nextId, cnt, everAssigned, reaped, deleted>>

\* srem assigned_tokens; return true
FreeSrem(serial, p) ==
    /\ pc[p] = "f_srem" /\ Turn(serial, p)
    /\ assigned_tokens' = Srem(assigned_tokens, arg[p])
    /\ Done(p)
    /\ lease' = [lease EXCEPT ![arg[p]] = FALSE]
    /\ notif' = MarkStale(serial, notif, arg[p])
    /\ htag' = StaleTags(serial, htag, arg[p])
    /\ last' = Rec(serial, Ev("free", arg[p], TRUE, After(arg[p])))
    /\ UNCHANGED <<keys, available_tokens, nextId, cnt, everAssigned, reaped, deleted>>

\* ------------------------------------------- getAssignedTokens, getAllTokens
\* ttl token:<id>: the remaining time to live, -2 for a key that does not exist
Ttl(k, t) == k[t].ttl

\* smembers assigned_tokens, then ttl of the key of each member; expiry is
\* ttl * 1000 + Date.now(), of which the rows keep the ttl
AssignedRows ==
    {[token |-> t, ttl |-> Ttl(keys, t)] : t \in assigned_tokens}

\* keys token:*, then get and ttl of each key
AllRows ==
    {[token |-> t, status |-> keys[t].val, ttl |-> Ttl(keys, t)] :
        t \in {u \in Tokens : Exists(keys, u)}}

Snapshot(op, rows) ==
    [op |-> op, tok |-> 0, ok |-> TRUE, after |-> "other", rows |-> rows]

\* GET /token/assigned, from its smembers to its return
GetAssignedTokens(serial, p) ==
    /\ Free(p) /\ Turn(serial, p)
    /\ last' = Rec(serial, Snapshot("getAssigned", AssignedRows))
    /\ UNCHANGED <<store, notif, nextId, local, hist, htag>>

\* GET /token/all, from its keys to its return
GetAllTokens(serial, p) ==
    /\ Free(p) /\ Turn(serial, p)
    /\ last' = Rec(serial, Snapshot("getAll", AllRows))
    /\ UNCHANGED <<store, notif, nextId, local, hist, htag>>

\* ---------------------------------------------------------- deleteToken
\* faulty variant: the existence test is left out
DeleteExists_NoTest(serial, p, t) ==
    /\ Free(p) /\ Turn(serial, p)
    /\ Go(p, "d_del")
    /\ arg' = [arg EXCEPT ![p] = t]
    /\ notif' = MarkTouched(serial, notif, t)
    /\ htag' = TouchTags(serial, htag, t)
    /\ UNCHANGED <<store, nextId, cnt, hist, last>>

\* exists token:<id>; no key returns false
DeleteExists(serial, p, t) ==
    /\ Free(p) /\ Turn(serial, p)
    /\ IF ~Exists(keys, t)
       THEN /\ last' = Rec(serial, Ev("delete", t, FALSE, AfterDelete(t)))
            /\ UNCHANGED <<pc, arg>>
       ELSE /\ Go(p, "d_del")
            /\ arg' = [arg EXCEPT ![p] = t]
            /\ UNCHANGED last
    /\ notif' = MarkTouched(serial, notif, t)
    /\ htag' = TouchTags(serial, htag, t)
    /\ UNCHANGED <<store, nextId, cnt, hist>>

\* del token:<id>
DeleteDel(serial, p) ==
    /\ pc[p] = "d_del" /\ Turn(serial, p)
    /\ keys' = Del(keys, arg[p])
    /\ Go(p, "d_srem_as")
    /\ UNCHANGED <<available_tokens, assigned_tokens, notif, nextId, arg, cnt,
                   hist, htag, last>>

\* faulty variant: the token is left in assigned_tokens
DeleteSremAssigned_Skips(serial, p) ==
    /\ pc[p] = "d_srem_as" /\ Turn(serial, p)
    /\ Go(p, "d_srem_av")
    /\ UNCHANGED <<store, notif, nextId, arg, cnt, hist, htag, last>>

\* srem assigned_tokens
DeleteSremAssigned(serial, p) ==
    /\ pc[p] = "d_srem_as" /\ Turn(serial, p)
    /\ assigned_tokens' = Srem(assigned_tokens, arg[p])
    /\ Go(p, "d_srem_av")
    /\ UNCHANGED <<keys, available_tokens, notif, nextId, arg, cnt, hist, htag, last>>

\* srem available_tokens; return true
DeleteSremAvailable(serial, p) ==
    /\ pc[p] = "d_srem_av" /\ Turn(serial, p)
    /\ available_tokens' = Srem(available_tokens, arg[p])
    /\ Done(p)
    /\ deleted' = [deleted EXCEPT ![arg[p]] = TRUE]
    /\ notif' = MarkStale(serial, notif, arg[p])
    /\ htag' = StaleTags(serial, htag, arg[p])
    /\ last' = Rec(serial, Ev("delete", arg[p], TRUE, "other"))
    /\ UNCHANGED <<keys, assigned_tokens, nextId, cnt, lease, everAssigned, reaped>>

\* ------------------------------------------------------------ keepAlive
\* exists token:<id>; no key returns false
KeepAliveExists(serial, p, t) ==
    /\ Free(p) /\ Turn(serial, p)
    /\ IF ~Exists(keys, t)
       THEN /\ last' = Rec(serial, Ev("keepAlive", t, FALSE, "other"))
            /\ UNCHANGED <<pc, arg>>
       ELSE /\ Go(p, "k_sismember")
            /\ arg' = [arg EXCEPT ![p] = t]
            /\ UNCHANGED last
    /\ notif' = MarkTouched(serial, notif, t)
    /\ htag' = TouchTags(serial, htag, t)
    /\ UNCHANGED <<store, nextId, cnt, hist>>

\* sismember assigned_tokens chooses the TTL
KeepAliveSismember(serial, p) ==
    /\ pc[p] = "k_sismember" /\ Turn(serial, p)
    /\ Go(p, IF Sismember(assigned_tokens, arg[p]) THEN "k_expire_as" ELSE "k_expire_av")
    /\ UNCHANGED <<store, notif, nextId, arg, cnt, hist, htag, last>>

\* faulty variant: the two TTLs are swapped
KeepAliveExpire_Swapped(serial, p) ==
    /\ pc[p] \in {"k_expire_as", "k_expire_av"} /\ Turn(serial, p)
    /\ keys' = ExpireCmd(keys, arg[p],
                         IF pc[p] = "k_expire_as" THEN TOKEN_EXPIRY ELSE KEEP_ALIVE_EXPIRY)
    /\ Done(p)
    /\ last' = Rec(serial, Ev("keepAlive", arg[p], TRUE, "other"))
    /\ UNCHANGED <<available_tokens, assigned_tokens, notif, nextId, cnt, hist, htag>>

\* expire token:<id> with the chosen TTL; return true
KeepAliveExpire(serial, p) ==
    /\ pc[p] \in {"k_expire_as", "k_expire_av"} /\ Turn(serial, p)
    /\ keys' = ExpireCmd(keys, arg[p],
                         IF pc[p] = "k_expire_as" THEN KEEP_ALIVE_EXPIRY ELSE TOKEN_EXPIRY)
    /\ Done(p)
    /\ last' = Rec(serial, Ev("keepAlive", arg[p], TRUE, "other"))
    /\ UNCHANGED <<available_tokens, assigned_tokens, notif, nextId, cnt, hist, htag>>

\* ------------------------------------------------------------ key expiry
\* The store removes a key whose TTL elapsed and publishes its name on
\* __keyevent@0__:expired.  The sets are not touched.
ExpireKey(serial, t) ==
    /\ serial => AtRest
    /\ Exists(keys, t)
    /\ Len(notif) < MaxNotif
    /\ keys' = Del(keys, t)
    /\ notif' = Append(notif, [tok |-> t, stale |-> FALSE,
                               lease |-> serial /\ keys[t].val = "assigned" /\ lease[t]])
    /\ lease' = [lease EXCEPT ![t] = IF keys[t].val = "assigned" THEN FALSE ELSE @]
    /\ last' = NoEv
    /\ UNCHANGED <<available_tokens, assigned_tokens, nextId, local,
                   everAssigned, reaped, deleted, htag>>

\* --------------------------------------------------- handleExpiredToken
\* The listener's callback for the oldest notification: sismember
\* assigned_tokens chooses between the reclaim and the permanent deletion.
HandleSismember(serial, p) ==
    /\ Free(p) /\ Turn(serial, p)
    /\ notif # <<>>
    /\ LET n == Head(notif) IN
       /\ notif' = Tail(notif)
       /\ arg' = [arg EXCEPT ![p] = n.tok]
       /\ htag' = [htag EXCEPT ![p] = [stale |-> n.stale, lease |-> n.lease]]
       /\ Go(p, IF Sismember(assigned_tokens, n.tok) THEN "h_sadd" ELSE "h_srem_av")
    /\ last' = NoEv
    /\ UNCHANGED <<store, nextId, cnt, hist>>

\* reclaim: sadd available_tokens
HandleSadd(serial, p) ==
    /\ pc[p] = "h_sadd" /\ Turn(serial, p)
    /\ available_tokens' = Sadd(available_tokens, arg[p])
    /\ Go(p, "h_set")
    /\ UNCHANGED <<keys, assigned_tokens, notif, nextId, arg, cnt, hist, htag, last>>

\* faulty variant: the reclaim does not write the key
HandleSet_Skips(serial, p) ==
    /\ pc[p] = "h_set" /\ Turn(serial, p)
    /\ Go(p, "h_srem_as")
    /\ UNCHANGED <<store, notif, nextId, arg, cnt, hist, htag, last>>

\* reclaim: set token:<id> 'free' EX TOKEN_EXPIRY
HandleSet(serial, p) ==
    /\ pc[p] = "h_set" /\ Turn(serial, p)
    /\ keys' = SetEx(keys, arg[p], "free", TOKEN_EXPIRY)
    /\ Go(p, "h_srem_as")
    /\ UNCHANGED <<available_tokens, assigned_tokens, notif, nextId, arg, cnt,
                   hist, htag, last>>

\* reclaim: srem assigned_tokens
HandleSremAssigned(serial, p) ==
    /\ pc[p] = "h_srem_as" /\ Turn(serial, p)
    /\ assigned_tokens' = Srem(assigned_tokens, arg[p])
    /\ Done(p)
    /\ reaped' = [reaped EXCEPT ![arg[p]] = TRUE]
    /\ htag' = [htag EXCEPT ![p] = NoTag]
    /\ UNCHANGED <<keys, available_tokens, notif, nextId, cnt, lease, everAssigned,
                   deleted, last>>

\* faulty variant: the unassigned branch only logs
HandleSremAvailable_Skips(serial, p) ==
    /\ pc[p] = "h_srem_av" /\ Turn(serial, p)
    /\ Done(p)
    /\ reaped' = [reaped EXCEPT ![arg[p]] = TRUE]
    /\ htag' = [htag EXCEPT ![p] = NoTag]
    /\ UNCHANGED <<store, notif, nextId, cnt, lease, everAssigned, deleted, last>>

\* permanent deletion: srem available_tokens
HandleSremAvailable(serial, p) ==
    /\ pc[p] = "h_srem_av" /\ Turn(serial, p)
    /\ available_tokens' = Srem(available_tokens, arg[p])
    /\ Done(p)
    /\ reaped' = [reaped EXCEPT ![arg[p]] = TRUE]
    /\ htag' = [htag EXCEPT ![p] = NoTag]
    /\ UNCHANGED <<keys, assigned_tokens, notif, nextId, cnt, lease, everAssigned,
                   deleted, last>>

\* the first store call of the callback, sismember, throws
HandleSismemberThrows(serial, p) ==
    /\ Free(p) /\ Turn(serial, p)
    /\ notif # <<>>
    /\ LET n == Head(notif) IN
       /\ notif' = Tail(notif)
       /\ arg' = [arg EXCEPT ![p] = n.tok]
       /\ htag' = [htag EXCEPT ![p] = [stale |-> n.stale, lease |-> n.lease]]
       /\ Go(p, "h_catch")
    /\ last' = NoEv
    /\ UNCHANGED <<store, nextId, cnt, hist>>

\* the sadd, set or srem the callback is about to make throws
HandleThrows(serial, p) ==
    /\ pc[p] \in HandlerPcs /\ Turn(serial, p)
    /\ Go(p, "h_catch")
    /\ UNCHANGED <<store, notif, nextId, arg, cnt, hist, htag, last>>

\* catch: the error is logged and the callback returns; the listener stays
\* subscribed
HandleCatch(serial, p) ==
    /\ pc[p] = "h_catch" /\ Turn(serial, p)
    /\ Done(p)
    /\ htag' = [htag EXCEPT ![p] = NoTag]
    /\ UNCHANGED <<store, notif, nextId, cnt, hist, last>>

\* The oldest published notification never reaches the listener (the channel
\* delivers at most once, and not at all while the subscriber reconnects).
NotificationLost(serial) ==
    /\ serial => AtRest
    /\ notif # <<>>
    /\ notif' = Tail(notif)
    /\ last' = NoEv
    /\ UNCHANGED <<store, nextId, local, hist, htag>>

\* ------------------------------------------------------- specifications
Steps(serial, cap) ==
    \/ \E p \in Procs, c \in CountInputs : CreateRequest(serial, cap, p, c)
    \/ \E p \in Procs : CreateSet(serial, p)
    \/ \E p \in Procs : CreateSadd(serial, p)
    \/ \E p \in Procs : AssignSpop(serial, p)
    \/ \E p \in Procs : AssignSet(serial, p)
    \/ \E p \in Procs : AssignSadd(serial, p)
    \/ \E p \in Procs, t \in Tokens : FreeSismember(serial, p, t)
    \/ \E p \in Procs : FreeSet(serial, p)
    \/ \E p \in Procs : FreeSadd(serial, p)
    \/ \E p \in Procs : FreeSrem(serial, p)
    \/ \E p \in Procs, t \in Tokens : DeleteExists(serial, p, t)
    \/ \E p \in Procs : DeleteDel(serial, p)
    \/ \E p \in Procs : DeleteSremAssigned(serial, p)
    \/ \E p \in Procs : DeleteSremAvailable(serial, p)
    \/ \E p \in Procs, t \in Tokens : KeepAliveExists(serial, p, t)
    \/ \E p \in Procs : KeepAliveSismember(serial, p)
    \/ \E p \in Procs : KeepAliveExpire(serial, p)
    \/ \E t \in Tokens : ExpireKey(serial, t)
    \/ \E p \in Procs : HandleSismember(serial, p)
    \/ \E p \in Procs : HandleSadd(serial, p)
    \/ \E p \in Procs : HandleSet(serial, p)
    \/ \E p \in Procs : HandleSremAssigned(serial, p)
    \/ \E p \in Procs : HandleSremAvailable(serial, p)

\* any interleaving of the store calls of concurrently running calls
Next == Steps(FALSE, MaxPool)

Spec == Init /\ [][Next]_vars

\* complete runs one after the other: a call runs from its first store call to
\* its return before the next call, expiry or notification
NextSeq == Steps(TRUE, MaxPool)

SpecSeq == Init /\ [][NextSeq]_vars

\* concurrent assignToken calls on a pool that nothing else operates on
NextAssign ==
    \/ \E p \in Procs, c \in CountInputs : CreateRequest(FALSE, MaxTokens, p, c)
    \/ \E p \in Procs : CreateSet(FALSE, p)
    \/ \E p \in Procs : CreateSadd(FALSE, p)
    \/ \E p \in Procs : AssignSpop(FALSE, p)
    \/ \E p \in Procs : AssignSet(FALSE, p)
    \/ \E p \in Procs : AssignSadd(FALSE, p)
    \/ \E t \in Tokens : ExpireKey(FALSE, t)

SpecAssign == Init /\ [][NextAssign]_vars

\* serial runs with the two listings among the calls
NextRead ==
    \/ Steps(TRUE, MaxPool)
    \/ \E p \in Procs : GetAssignedTokens(TRUE, p)
    \/ \E p \in Procs : GetAllTokens(TRUE, p)

SpecRead == Init /\ [][NextRead]_vars

\* serial runs in which store calls may throw and notifications may be lost
NextErr ==
    \/ Steps(TRUE, MaxPool)
    \/ \E p \in Procs : CreateThrows(TRUE, p)
    \/ \E p \in Procs : CreateCatch(TRUE, p)
    \/ \E p \in Procs : HandleSismemberThrows(TRUE, p)
    \/ \E p \in Procs : HandleThrows(TRUE, p)
    \/ \E p \in Procs : HandleCatch(TRUE, p)
    \/ NotificationLost(TRUE)

SpecErr == Init /\ [][NextErr]_vars

\* any interleaving of assignToken, freeToken, keepAlive and
\* handleExpiredToken runs, on tokens that createMultipleTokens made while
\* nothing else was running
NextLease ==
    \/ \E p \in Procs, c \in CountInputs : CreateRequest(TRUE, MaxPool, p, c)
    \/ \E p \in Procs : CreateSet(TRUE, p)
    \/ \E p \in Procs : CreateSadd(TRUE, p)
    \/ \E p \in Procs : AssignSpop(FALSE, p)
    \/ \E p \in Procs : AssignSet(FALSE, p)
    \/ \E p \in Procs : AssignSadd(FALSE, p)
    \/ \E p \in Procs, t \in Tokens : FreeSismember(FALSE, p, t)
    \/ \E p \in Procs : FreeSet(FALSE, p)
    \/ \E p \in Procs : FreeSadd(FALSE, p)
    \/ \E p \in Procs : FreeSrem(FALSE, p)
    \/ \E p \in Procs, t \in Tokens : KeepAliveExists(FALSE, p, t)
    \/ \E p \in Procs : KeepAliveSismember(FALSE, p)
    \/ \E p \in Procs : KeepAliveExpire(FALSE, p)
    \/ \E t \in Tokens : ExpireKey(FALSE, t)
    \/ \E p \in Procs : HandleSismember(FALSE, p)
    \/ \E p \in Procs : HandleSadd(FALSE, p)
    \/ \E p \in Procs : HandleSet(FALSE, p)
    \/ \E p \in Procs : HandleSremAssigned(FALSE, p)
    \/ \E p \in Procs : HandleSremAvailable(FALSE, p)

SpecLease == Init /\ [][NextLease]_vars

\* createMultipleTokens and assignToken calls one after the other, on a pool
\* that nothing else operates on
NextPool ==
    \/ \E p \in Procs, c \in CountInputs : CreateRequest(TRUE, MaxTokens, p, c)
    \/ \E p \in Procs : CreateSet(TRUE, p)
    \/ \E p \in Procs : CreateSadd(TRUE, p)
    \/ \E p \in Procs : AssignSpop(TRUE, p)
    \/ \E p \in Procs : AssignSet(TRUE, p)
    \/ \E p \in Procs : AssignSadd(TRUE, p)
    \/ \E t \in Tokens : ExpireKey(TRUE, t)

SpecPool == Init /\ [][NextPool]_vars

\* ================================================================ claims
InExactlyOneSet(t) ==
    (t \in available_tokens) # (t \in assigned_tokens)

InBothSets(t) == t \in available_tokens /\ t \in assigned_tokens

InNoSet(t) == t \notin available_tokens /\ t \notin assigned_tokens

\* C1 (SpecSeq): between complete runs every token whose key exists is a
\* member of exactly one of available_tokens and assigned_tokens.
C1_ExistingKeyInExactlyOneSet ==
    AtRest => \A t \in Tokens : Exists(keys, t) => InExactlyOneSet(t)

\* C2 (Spec): once every call in flight has made its last store call, no token
\* is a member of both sets.
C2_NeverInBothSetsAtRest ==
    AtRest => \A t \in Tokens : ~InBothSets(t)

AssignPops(p) == pc[p] = "idle" /\ pc'[p] = "a_set"

AssignReturns(p) == pc[p] = "a_sadd" /\ pc'[p] = "idle"

\* C3 (SpecAssign): with only assignToken calls running on the pool, the id a
\* call pops is a member of available_tokens that the pop removes, and no call
\* returns an id that a call has returned before.
C3_NoDoubleAssignment ==
    [][\A p \in Procs :
        /\ AssignPops(p) => /\ arg'[p] \in available_tokens
                            /\ arg'[p] \notin available_tokens'
        /\ AssignReturns(p) => ~everAssigned[arg[p]]]_vars

\* two calls in flight at once, each holding the id it popped
C3_Witness ==
    \E p, q \in Procs :
        /\ pc[p] = "a_sadd" /\ pc[q] = "a_sadd"
        /\ arg[p] # arg[q]

\* C4 (SpecSeq): assignToken never returns a token whose lease is running,
\* that is, one it returned before and that was neither freed by freeToken
\* nor had the key of that assignment expire since.
C4_ExclusiveLease ==
    [][\A p \in Procs : AssignReturns(p) => ~lease[arg[p]]]_vars

\* C5 (Spec): once deleteToken returned true for a token, the token has no
\* key and is in neither set, in every later state.
C5_DeletedStaysDeleted ==
    \A t \in Tokens : deleted[t] => ~Exists(keys, t) /\ InNoSet(t)

HandlerReturns(p) == pc[p] \in {"h_srem_as", "h_srem_av"} /\ pc'[p] = "idle"

FreeKey == [val |-> "free", ttl |-> TOKEN_EXPIRY]

\* C6 (SpecSeq): when handleExpiredToken has processed the notification of the
\* expiry of the key of an assignment, and no freeToken, keepAlive or
\* deleteToken was called on the token since it was assigned, the token is in
\* available_tokens, not in assigned_tokens, and its key is 'free' with TTL
\* TOKEN_EXPIRY.
C6_AbandonedLeaseReclaimed ==
    [][\A p \in Procs :
        HandlerReturns(p) /\ htag[p].lease =>
            /\ arg[p] \in available_tokens'
            /\ arg[p] \notin assigned_tokens'
            /\ keys'[arg[p]] = FreeKey]_vars

\* C7 (SpecSeq): a token that no assignToken ever returned and for which
\* handleExpiredToken has run is in neither set and has no key, and no
\* assignToken returns it afterwards.
C7_UnusedTokenDeletedForGood ==
    [][/\ \A t \in Tokens :
            reaped'[t] /\ ~everAssigned'[t] =>
                /\ t \notin available_tokens' /\ t \notin assigned_tokens'
                /\ ~Exists(keys', t)
       /\ \A p \in Procs :
            AssignReturns(p) => ~reaped[arg[p]] \/ everAssigned[arg[p]]]_vars

\* a created token, never assigned, whose expiry notification was handled
C7_Witness ==
    \E t \in Tokens : t <= nextId /\ reaped[t] /\ ~everAssigned[t]

\* C8 (SpecSeq): a run of handleExpiredToken on a notification whose token was
\* reassigned, freed or deleted since the expiry changes no set and no key.
\* (In a serial run the steps of the handler undo nothing of each other, so
\* the run changes nothing exactly when no step of it does.)
C8_StaleNotificationChangesNothing ==
    [][\A p \in Procs :
        pc[p] \in HandlerPcs /\ htag[p].stale =>
            UNCHANGED <<keys, available_tokens, assigned_tokens>>]_vars

\* a call that returns false at its first store call leaves every pc as it was
FreeFails == pc' = pc /\ last'.op = "free"

FreeProceeds(p) == pc[p] = "idle" /\ pc'[p] = "f_set"

FreeReturnsTrue(p) == pc[p] = "f_srem" /\ pc'[p] = "idle"

\* C9 (SpecSeq): freeToken(T) called right after assignToken returned T does
\* not fail, and when it returns T is in available_tokens, not in
\* assigned_tokens, and its key is 'free' with TTL TOKEN_EXPIRY.
C9_FreeRightAfterAssign ==
    [][/\ FreeFails => last'.after # "assign"
       /\ \A p \in Procs :
            FreeReturnsTrue(p) /\ last = Ev("assign", arg[p], TRUE, "other") =>
                /\ last'.ok
                /\ arg[p] \in available_tokens'
                /\ arg[p] \notin assigned_tokens'
                /\ keys'[arg[p]] = FreeKey]_vars

\* freeToken(T) has just returned true, called right after assignToken
\* returned T
C9_Witness ==
    \E t \in Tokens :
        /\ last = Ev("free", t, TRUE, "assign")
        /\ t \in available_tokens /\ AtRest

\* C10 (SpecSeq): freeToken(T) goes past its membership test only for a member
\* of assigned_tokens; a call that fails changes no key and no set; and a
\* freeToken(T) right after a freeToken(T) that returned true fails.
C10_FreeOfNonMemberFails ==
    [][/\ \A p \in Procs :
            FreeProceeds(p) =>
                /\ arg'[p] \in assigned_tokens
                /\ ~(last.op = "free" /\ last.ok /\ last.tok = arg'[p])
       /\ FreeFails =>
            /\ ~last'.ok
            /\ last'.tok \notin assigned_tokens
            /\ UNCHANGED <<keys, available_tokens, assigned_tokens>>]_vars

\* the second of two sequential freeToken(T) calls has just returned false
C10_Witness ==
    \E t \in Tokens : last = Ev("free", t, FALSE, "free") /\ AtRest

DeleteFails == pc' = pc /\ last'.op = "delete" /\ ~last'.ok

DeleteProceeds(p) == pc[p] = "idle" /\ pc'[p] = "d_del"

\* C11 (SpecSeq): deleteToken(T) goes past its existence test only when the
\* key token:T exists; a call for a T without a key returns false, every time,
\* and changes no key and no set.
C11_DeleteOfMissingKeyFails ==
    [][/\ \A p \in Procs : DeleteProceeds(p) => Exists(keys, arg'[p])
       /\ DeleteFails =>
            /\ ~Exists(keys, last'.tok)
            /\ UNCHANGED <<keys, available_tokens, assigned_tokens>>]_vars

\* deleteToken(T) has returned false again for a T that a deleteToken deleted
C11_Witness ==
    \E t \in Tokens :
        last = Ev("delete", t, FALSE, "delete") /\ deleted[t] /\ AtRest

\* C12 (SpecSeq): from the return of a successful deleteToken(T) on, T is not
\* in assigned_tokens, no freeToken(T) goes past its membership test, and a
\* freeToken(T) that returns false leaves available_tokens as it was.
C12_DeletedAssignedCannotBeFreed ==
    [][/\ \A t \in Tokens : deleted'[t] => t \notin assigned_tokens'
       /\ \A p \in Procs : FreeProceeds(p) => ~deleted[arg'[p]]
       /\ FreeFails /\ last'.tok \in Tokens /\ deleted[last'.tok] =>
            /\ ~last'.ok
            /\ UNCHANGED available_tokens
            /\ last'.tok \notin available_tokens']_vars

\* freeToken(T) has returned false for a T that was deleted while its lease
\* was running: assignToken had returned T, and T was neither freed, nor
\* expired, nor reclaimed by the listener before the deleteToken
C12_Witness ==
    \E t \in Tokens :
        /\ last.op = "free" /\ last.tok = t /\ ~last.ok
        /\ deleted[t] /\ lease[t] /\ ~reaped[t]
        /\ AtRest

KeepAliveFails == pc' = pc /\ last'.op = "keepAlive" /\ ~last'.ok

KeepAliveProceeds(p) == pc[p] = "idle" /\ pc'[p] = "k_sismember"

KeepAliveSteps(p) ==
    KeepAliveProceeds(p) \/ pc[p] \in {"k_sismember", "k_expire_as", "k_expire_av"}

KeepAliveReturns(p) == pc[p] \in {"k_expire_as", "k_expire_av"} /\ pc'[p] = "idle"

\* C13 (SpecSeq): no step of keepAlive(T) changes a set or the value of a key;
\* the call goes on only when the key token:T exists, and then returns true
\* with the TTL of the key set to KEEP_ALIVE_EXPIRY when T is in
\* assigned_tokens and to TOKEN_EXPIRY otherwise; a call that returns false
\* found no key and changed nothing.
C13_KeepAliveOnlyResetsTtl ==
    [][/\ \A p \in Procs :
            /\ KeepAliveSteps(p) =>
                    /\ UNCHANGED <<available_tokens, assigned_tokens>>
                    /\ \A t \in Tokens : keys'[t].val = keys[t].val
            /\ KeepAliveProceeds(p) => Exists(keys, arg'[p])
            /\ KeepAliveReturns(p) =>
                    /\ last' = Ev("keepAlive", arg[p], TRUE, "other")
                    /\ Exists(keys', arg[p])
                    /\ keys'[arg[p]].ttl =
                          IF arg[p] \in assigned_tokens
                          THEN KEEP_ALIVE_EXPIRY ELSE TOKEN_EXPIRY
       /\ KeepAliveFails =>
            /\ ~Exists(keys, last'.tok)
            /\ UNCHANGED <<keys, available_tokens, assigned_tokens>>]_vars

\* keepAlive(T) has just returned true for a T in assigned_tokens
C13_Witness ==
    /\ AtRest /\ last.op = "keepAlive" /\ last.ok
    /\ last.tok \in assigned_tokens
    /\ keys[last.tok] = [val |-> "assigned", ttl |-> KEEP_ALIVE_EXPIRY]
AssignFails == pc' = pc /\ last'.op = "assign" /\ ~last'.ok

\* in SpecPool no notification is ever taken off the queue
NoExpirySoFar == notif = <<>>

\* C14 (SpecPool): as long as no key has expired, after the createMultipleTokens
\* calls have returned every generated id is in exactly one of the two sets and
\* the ids in assigned_tokens are those that assignToken returned; each
\* assignToken that returns an id returns one not returned before and makes
\* assigned_tokens one larger; and an assignToken returns false only when
\* available_tokens is empty (all ids are assigned), changing nothing.
C14_CreateThenAssignAll ==
    [][NoExpirySoFar' =>
        /\ AtRest' =>
              /\ available_tokens' \cap assigned_tokens' = {}
              /\ available_tokens' \cup assigned_tokens' = 1..nextId'
              /\ assigned_tokens' = {t \in Tokens : everAssigned'[t]}
        /\ \A p \in Procs :
              AssignReturns(p) =>
                /\ last' = Ev("assign", arg[p], TRUE, "other")
                /\ ~everAssigned[arg[p]]
                /\ Cardinality(assigned_tokens') = Cardinality(assigned_tokens) + 1
        /\ AssignFails =>
              /\ available_tokens = {}
              /\ Cardinality(assigned_tokens) = nextId
              /\ UNCHANGED <<keys, available_tokens, assigned_tokens>>]_vars

\* createMultipleTokens(n) made MaxTokens ids, as many assignToken calls
\* returned them all, and one more assignToken has just returned false
C14_Witness ==
    /\ AtRest /\ NoExpirySoFar
    /\ nextId = MaxTokens
    /\ available_tokens = {}
    /\ Cardinality(assigned_tokens) = MaxTokens
    /\ last = Ev("assign", 0, FALSE, "other")
\* the controller answered a create request with BadRequestException
CreateRejected == pc' = pc /\ last'.op = "create" /\ ~last'.ok

CreateProceeds(p) == pc[p] = "idle" /\ pc'[p] = "c_set"

\* C15 (SpecSeq): a create request whose count is missing, zero or negative is
\* answered with BadRequestException and changes no key and no set, and only
\* a request with a positive count reaches the service.
C15_InvalidCountRejected ==
    [][/\ \A p \in Procs, c \in CountInputs :
            InvalidCount(c) /\ CreateRequest(TRUE, MaxPool, p, c) =>
                /\ CreateRejected
                /\ UNCHANGED <<keys, available_tokens, assigned_tokens, nextId>>
       /\ \A p \in Procs : CreateProceeds(p) => cnt'[p] > 0
       /\ CreateRejected =>
            UNCHANGED <<keys, available_tokens, assigned_tokens, nextId>>]_vars

\* a create request has just been rejected while the pool holds a token
C15_Witness ==
    /\ AtRest /\ last = Ev("create", 0, FALSE, "other")
    /\ available_tokens \cup assigned_tokens # {}
\* every notification published so far has been handled to its last store call
AllNotificationsHandled == AtRest /\ notif = <<>>

\* C16 (SpecSeq): between complete runs, once handleExpiredToken has handled
\* every notification published so far, every member of available_tokens and
\* of assigned_tokens has its key token:<id>.
C16_NoMemberWithoutKey ==
    AllNotificationsHandled =>
        \A t \in available_tokens \cup assigned_tokens : Exists(keys, t)

\* the listener has reclaimed a token whose key had expired, and no
\* notification is left
C16_Witness ==
    /\ AllNotificationsHandled
    /\ \E t \in available_tokens : reaped[t] /\ everAssigned[t] /\ keys[t] = FreeKey
\* the oldest notification is dropped: no callback starts
LosesNotification == pc' = pc /\ notif # <<>> /\ notif' = Tail(notif)

HandlerGivesUp(p) == pc[p] = "h_catch" /\ pc'[p] = "idle"

\* C17 (SpecErr): when the notification of the expiry of T is lost, or the
\* run of handleExpiredToken for it ends in the catch block, T is in neither
\* available_tokens nor assigned_tokens.
C17_LostReconciliationLeavesNoMember ==
    [][/\ LosesNotification =>
            LET t == Head(notif).tok IN
                t \notin available_tokens' /\ t \notin assigned_tokens'
       /\ \A p \in Procs :
            HandlerGivesUp(p) =>
                arg[p] \notin available_tokens' /\ arg[p] \notin assigned_tokens']_vars

CreateGivesUp(p) == pc[p] = "c_catch" /\ pc'[p] = "idle"

\* C18 (SpecErr): a create request in which a set or sadd threw is not
\* answered as a success, and the key its last set wrote, if any, belongs to
\* a member of available_tokens.
C18_CreateFailureReported ==
    [][\A p \in Procs :
        CreateGivesUp(p) =>
            /\ ~(last'.op = "create" /\ last'.ok)
            /\ arg[p] \in Tokens /\ Exists(keys', arg[p]) =>
                    arg[p] \in available_tokens']_vars
AssignedKey == [val |-> "assigned", ttl |-> KEEP_ALIVE_EXPIRY]

\* C19 (SpecLease): once every call in flight has returned, the key of a
\* member of available_tokens, when it exists, is 'free' with the TTL last set
\* from TOKEN_EXPIRY, and the key of a member of assigned_tokens, when it
\* exists, is 'assigned' with the TTL last set from KEEP_ALIVE_EXPIRY.
C19_KeyMatchesSetAtRest ==
    AtRest =>
        \A t \in Tokens :
            Exists(keys, t) =>
                /\ t \in available_tokens => keys[t] = FreeKey
                /\ t \in assigned_tokens => keys[t] = AssignedKey
ListingReturns(op) == pc' = pc /\ last'.op = op

Ids(rows) == {r.token : r \in rows}

\* C20 (SpecRead): getAllTokens and getAssignedTokens change no key and no
\* set; and, called between complete runs, getAssignedTokens returns exactly
\* the ids that getAllTokens returns with status 'assigned', each with a
\* remaining TTL that is not negative.
C20_ListingsAgree ==
    [][/\ ListingReturns("getAll") \/ ListingReturns("getAssigned") =>
            UNCHANGED <<keys, available_tokens, assigned_tokens>>
       /\ ListingReturns("getAssigned") =>
            /\ Ids(last'.rows) = Ids({r \in AllRows : r.status = "assigned"})
            /\ \A r \in last'.rows : r.ttl >= 0]_vars
====
